---- MODULE Spec2Model ----
(***************************************************************************)
(* A model of scripts/Texting_Theory_Scraper.py: the persistent state      *)
(* store (load_state / save_state), the source resolver                    *)
(* (get_image_urls_from_submission) and the fetch-and-dedupe driver (main).*)
(***************************************************************************)
EXTENDS Integers, Sequences, FiniteSets, TLC

(***************************************************************************)
(* URLs.  A URL string is modelled by the features the code inspects:      *)
(*   pre   - how the string starts: "http" (http:// or https://), "HTTP"   *)
(*           (the same in upper case), "other" (another scheme or none),   *)
(*           "absent" (None or the empty string);                          *)
(*   host  - urlparse(u).netloc.lower();                                   *)
(*   path  - the path without its extension (a small number);              *)
(*   ext   - the extension the path ends in ("" when it has none);         *)
(*   query - the query string, "" when there is none;                      *)
(*   bad   - urlparse(u) raises ValueError (e.g. "http://[x").             *)
(***************************************************************************)
Url(pre, host, path, ext, query, bad) ==
    [pre |-> pre, host |-> host, path |-> path, ext |-> ext, query |-> query, bad |-> bad]

NoUrl == Url("absent", "", 0, "", "", FALSE)

REDDIT_IMAGE_HOSTS == {"i.redd.it", "preview.redd.it", "i.reddituploads.com"}

IMAGE_EXTS == {".jpg", ".jpeg", ".png", ".gif", ".webp"}

\* s.lower() of an extension
LowerExt(e) ==
    CASE e = ".PNG" -> ".png"
      [] e = ".JPG" -> ".jpg"
      [] OTHER -> e

\* `src and ...` / `submission.url or ""`: None and "" are both falsy
Truthy(u) == u.pre # "absent"

\* u.startswith("http")
StartsWithHttp(u) == u.pre = "http"

\* u.lower().startswith("http")
LowerStartsWithHttp(u) == u.pre \in {"http", "HTTP"}

\* the suffix of the whole string: the query when there is one, else the path
\* any(u.lower().endswith(ext) for ext in (...))
EndsWithImageExt(u) ==
    IF u.query = ""
    THEN LowerExt(u.ext) \in IMAGE_EXTS
    ELSE u.query = "f=.png"

\* src.replace("&amp;", "&")
DecodeAmp(u) == [u EXCEPT !.query = IF @ = "a&amp;b" THEN "a&b" ELSE @]

HasEscapedAmp(u) == u.query = "a&amp;b"

\* urlparse lower-cases the scheme
LowerPre(p) == IF p = "HTTP" THEN "http" ELSE p

\* lines 95-104; SameUrl is the normalisation left out
SameUrl(u) == u
normalize_reddit_image_url(u) ==
    IF u.bad
    THEN u
    ELSE IF u.host \in REDDIT_IMAGE_HOSTS
         THEN Url(LowerPre(u.pre), u.host, u.path, u.ext, "", FALSE)
         ELSE u

(***************************************************************************)
(* Submissions.                                                            *)
(*   media_metadata : a dict media_id -> meta; a meta is a dict with the   *)
(*       source "s"."u" and a preview size "p", or None (kind "none");     *)
(*   gallery_data   : None (kind "none") or {"items": [media ids]};        *)
(*   preview        : None, a dict without "images", or {"images": [...]}, *)
(*       each image holding "source"."url".                                *)
(***************************************************************************)
Meta(s, p) == [kind |-> "dict", s |-> s, p |-> p]
NoneMeta == [kind |-> "none", s |-> NoUrl, p |-> NoUrl]
EmptyMeta == Meta(NoUrl, NoUrl)

GalleryData(items) == [kind |-> "items", items |-> items]
NoGalleryData == [kind |-> "none", items |-> <<>>]

Preview(images) == [kind |-> "images", images |-> images]
NoPreview == [kind |-> "none", images |-> <<>>]
PreviewWithoutImages == [kind |-> "noimages", images |-> <<>>]

Submission(is_gallery, md, gd, url, preview) ==
    [is_gallery |-> is_gallery, media_metadata |-> md, gallery_data |-> gd,
     url |-> url, preview |-> preview]

\* (meta.get("s") or {}).get("u") of one gallery item, line 122
GalleryPreviewSize(meta) == meta.p
GallerySource(meta) == meta.s

\* lines 119-124: the loop over gallery_data["items"]; an exception
\* (meta is None) ends the loop and keeps what was appended before it
RECURSIVE GalleryLoop(_, _, _, _)
GalleryLoop(md, items, i, urls) ==
    IF i > Len(items)
    THEN urls
    ELSE LET media_id == items[i]
             meta == IF media_id \in DOMAIN md THEN md[media_id] ELSE EmptyMeta
         IN  IF meta.kind = "none"
             THEN urls
             ELSE LET src == GallerySource(meta)
                  IN  IF Truthy(src) /\ StartsWithHttp(src)
                      THEN GalleryLoop(md, items, i + 1, Append(urls, DecodeAmp(src)))
                      ELSE GalleryLoop(md, items, i + 1, urls)

\* lines 116-128
GalleryRule(sub) ==
    IF sub.is_gallery /\ DOMAIN sub.media_metadata # {}
    THEN IF sub.gallery_data.kind = "none"
         THEN <<>>
         ELSE GalleryLoop(sub.media_metadata, sub.gallery_data.items, 1, <<>>)
    ELSE <<>>

\* lines 130-137; urlparse is outside any try
NativeRuleRaises(sub) == StartsWithHttp(sub.url) /\ sub.url.bad

NativeRule(sub) ==
    IF StartsWithHttp(sub.url) /\ sub.url.host \in REDDIT_IMAGE_HOSTS
    THEN <<sub.url>>
    ELSE <<>>

\* lines 139-143
ExtensionRule(sub) ==
    IF LowerStartsWithHttp(sub.url) /\ EndsWithImageExt(sub.url)
    THEN <<sub.url>>
    ELSE <<>>

\* lines 149-153: the first image with an http source, one only
RECURSIVE PreviewLoop(_, _)
PreviewLoop(images, i) ==
    IF i > Len(images)
    THEN <<>>
    ELSE LET src == images[i].source
         IN  IF Truthy(src) /\ StartsWithHttp(src)
             THEN <<DecodeAmp(src)>>
             ELSE PreviewLoop(images, i + 1)

\* lines 145-155
PreviewRule(sub) ==
    IF sub.preview.kind = "images"
    THEN PreviewLoop(sub.preview.images, 1)
    ELSE <<>>

\* lines 157-164
RECURSIVE DedupeLoop(_, _, _, _)
DedupeLoop(urls, i, deduped, seen) ==
    IF i > Len(urls)
    THEN deduped
    ELSE LET canon == normalize_reddit_image_url(urls[i])
         IN  IF canon \notin seen
             THEN DedupeLoop(urls, i + 1, Append(deduped, urls[i]), seen \cup {canon})
             ELSE DedupeLoop(urls, i + 1, deduped, seen)

\* the four rules without the `if not urls` tests of lines 131, 140, 146
AllRulesApplied(sub) ==
    [raised |-> FALSE,
     urls |-> DedupeLoop(GalleryRule(sub) \o NativeRule(sub) \o ExtensionRule(sub)
                            \o PreviewRule(sub), 1, <<>>, {})]

\* lines 106-164; the result is [raised, urls]: raised when the function
\* ends with an exception instead of returning
get_image_urls_from_submission(sub) ==
    LET r1 == GalleryRule(sub)
    IN  IF r1 # <<>>
        THEN [raised |-> FALSE, urls |-> DedupeLoop(r1, 1, <<>>, {})]
        ELSE IF NativeRuleRaises(sub)
             THEN [raised |-> TRUE, urls |-> <<>>]
             ELSE LET r2 == NativeRule(sub)
                      r3 == IF r2 # <<>> THEN r2 ELSE ExtensionRule(sub)
                      r4 == IF r3 # <<>> THEN r3 ELSE PreviewRule(sub)
                  IN  [raised |-> FALSE, urls |-> DedupeLoop(r4, 1, <<>>, {})]

(***************************************************************************)
(* The feed.  Each post identifier names one submission of the catalog.    *)
(***************************************************************************)
SrcA == Url("http", "preview.redd.it", 1, ".jpg", "w=1", FALSE)
SrcB == Url("http", "preview.redd.it", 2, ".jpg", "a&amp;b", FALSE)
External == Url("http", "ex.com", 1, "", "", FALSE)
PreviewSrc == Url("http", "ex.com", 2, ".jpg", "a&amp;b", FALSE)
Malformed == Url("http", "", 0, "", "", TRUE)

\* 4: a link post with a preview; 3: a link post whose submitted URL urlparse
\* rejects; 2: a gallery of two items; 1: a text post
Catalog(pid) ==
    CASE pid = 4 -> Submission(FALSE, <<>>, NoGalleryData, External,
                               Preview(<<[source |-> PreviewSrc]>>))
      [] pid = 3 -> Submission(FALSE, <<>>, NoGalleryData, Malformed,
                               Preview(<<[source |-> PreviewSrc]>>))
      [] pid = 2 -> Submission(TRUE, [m \in {1, 2} |-> IF m = 1 THEN Meta(SrcA, PreviewSrc)
                                                      ELSE Meta(SrcB, PreviewSrc)],
                               GalleryData(<<1, 2>>), External, NoPreview)
      [] OTHER   -> Submission(FALSE, <<>>, NoGalleryData, NoUrl, NoPreview)

PostIds == {1, 2, 3, 4}

\* the listing holds at most MaxFeed posts (POST_LIMIT in the code)
MaxFeed == 2
MaxRuns == 2
NumBodies == 2

Bodies == 1..NumBodies

\* sub.new() lists the newest post first; identifiers grow with time
Feeds ==
    UNION {{f \in [1..n -> PostIds] : \A a, b \in 1..n : a < b => f[a] > f[b]} : n \in 1..MaxFeed}

(***************************************************************************)
(* Files.                                                                  *)
(***************************************************************************)
STATE_PATH == "state"
CorruptPath == "corrupt"

File(kind, id, posts, hashes) ==
    [kind |-> kind, id |-> id, seen_post_ids |-> posts, seen_hashes |-> hashes]
Absent == File("absent", 0, <<>>, <<>>)
Partial == File("partial", 0, <<>>, <<>>)
Garbage(g) == File("garbage", g, <<>>, <<>>)
NotMapping == File("nonmap", 0, <<>>, <<>>)
CorruptContents == {Garbage(1), Garbage(2), NotMapping}

\* sorted(s) of a set of integers
RECURSIVE Sorted(_)
Sorted(S) ==
    IF S = {}
    THEN <<>>
    ELSE LET m == CHOOSE x \in S : \A y \in S : x <= y
         IN  <<m>> \o Sorted(S \ {m})

\* set(l) of a list
ToSet(l) == {l[k] : k \in DOMAIN l}

\* json.dump of the state mapping, as the file holds it once fully written
Serialize(st) == File("valid", 0, st.seen_post_ids, st.seen_hashes)

EmptyState == [seen_post_ids |-> <<>>, seen_hashes |-> <<>>]

\* json.load of a file that parses to a mapping
Parse(file) == [seen_post_ids |-> file.seen_post_ids, seen_hashes |-> file.seen_hashes]

sha256_bytes(b) == 1000 + b

infer_extension_from_headers(ctype) ==
    CASE ctype = "image/png" -> ".png"
      [] ctype = "image/jpeg" -> ".jpg"
      [] ctype = "image/gif" -> ".gif"
      [] ctype = "image/webp" -> ".webp"
      [] OTHER -> ".jpg"

ContentTypes == {"image/png", "text/html"}

\* lines 183-188: {post_id}_{idx}{ext}; FileNameOfUrl is a name taken from
\* the URL alone, filename_from_url's basename
FileNameOfUrl(url, post_id, idx, ctype) ==
    <<0, url.path, IF url.ext # "" THEN url.ext ELSE infer_extension_from_headers(ctype)>>
FileName(url, post_id, idx, ctype) ==
    <<post_id, idx, IF url.ext # "" THEN url.ext ELSE infer_extension_from_headers(ctype)>>

\* the temporary path save_state writes to
TmpPathCanonical == STATE_PATH
TmpPath == "tmp"

Paths == {STATE_PATH, "tmp", CorruptPath}

\* line 219
NeverProcessed(pid, seen) == FALSE
AlreadyProcessed(pid, seen) == pid \in seen

\* line 179
NeverDuplicate(h, hashes) == FALSE
IsDuplicate(h, hashes) == h \in hashes

\* lines 226 and 249
MarkSeenIfFound(seen, pid, found) == IF found THEN seen \cup {pid} ELSE seen
MarkSeen(seen, pid, found) == seen \cup {pid}

\* the for loop of line 230 moves to the next candidate after every outcome
BreakLoop(j, n) == n + 1
NextCandidate(j, n) == j + 1

VARIABLES
    disk,               \* path -> file content (state file, temp file, backup)
    files,              \* saved images: file name -> body
    pc,                 \* where the process is; "idle" before the first run
    feed, i,            \* the listing of this run and the position in it
    urls, j,            \* the candidates of the current post and the position
    state,              \* the dict load_state returned
    seen_post_ids, seen_hashes,
    found_any_for_post,
    downloaded, skipped_posts, skipped_hashes,
    crashCause,         \* where the exception that ended the run was raised
    run,                \* number of runs started
    intact,             \* history: every run so far completed and loaded its state
    completed,          \* history: no run so far was ended by an exception or from outside
    repeat,             \* history: the run before completed, on this very feed
    attempts,           \* history: fetches made for the current post
    failed,             \* history: a fetch of this run failed
    killedAt,           \* history: pc at the external termination
    saving,             \* history: the state file before save_state and the new one
    loadRead,           \* history: what load_state found under STATE_PATH
    sub, result, rpc,   \* the resolver alone: input, outcome, position
    messages,           \* label_messages.py: the messages of one conversation
    mi,                 \* label_messages.py: the message the loop is at, from 1
    simplified_data     \* label_messages.py: the labelled records appended so far

mem == <<feed, i, urls, j, state, seen_post_ids, seen_hashes, found_any_for_post,
         downloaded, skipped_posts, skipped_hashes, attempts, failed>>
hist == <<crashCause, run, intact, completed, repeat, killedAt, saving, loadRead>>
resolverVars == <<sub, result, rpc>>
pipelineVars == <<disk, files, pc, mem, hist>>
labelVars == <<messages, mi, simplified_data>>
vars == <<pipelineVars, resolverVars, labelVars>>

Stopped == {"idle", "done", "crashed", "killed"}
SavePcs == {"save_open", "save_dump", "save_replace"}
Running == {"loop", "resolved", "download"} \cup SavePcs

NotSaving == [on |-> FALSE, old |-> Absent, new |-> Absent]
NoSub == Submission(FALSE, <<>>, NoGalleryData, NoUrl, NoPreview)
NoResult == [raised |-> FALSE, urls |-> <<>>]

\* no process: nothing in memory
NoMemory ==
    /\ feed' = <<>> /\ i' = 1 /\ urls' = <<>> /\ j' = 1
    /\ state' = EmptyState
    /\ seen_post_ids' = {} /\ seen_hashes' = {}
    /\ found_any_for_post' = FALSE
    /\ downloaded' = 0 /\ skipped_posts' = 0 /\ skipped_hashes' = 0
    /\ attempts' = 0 /\ failed' = FALSE

Init ==
    /\ disk = [p \in Paths |-> Absent]
    /\ files = <<>>
    /\ pc = "idle"
    /\ feed = <<>> /\ i = 1 /\ urls = <<>> /\ j = 1
    /\ state = EmptyState
    /\ seen_post_ids = {} /\ seen_hashes = {}
    /\ found_any_for_post = FALSE
    /\ downloaded = 0 /\ skipped_posts = 0 /\ skipped_hashes = 0
    /\ crashCause = "none"
    /\ run = 0
    /\ intact = TRUE
    /\ completed = TRUE
    /\ repeat = FALSE
    /\ attempts = 0 /\ failed = FALSE
    /\ killedAt = "none"
    /\ saving = NotSaving
    /\ loadRead = Absent
    /\ sub = NoSub /\ result = NoResult /\ rpc = "unused"
    /\ messages = <<>> /\ mi = 1 /\ simplified_data = <<>>

(***************************************************************************)
(* main(), lines 195-213: ensure_dirs, load_state, the two sets and the    *)
(* counters.  The listing of the run is fixed when the run starts.         *)
(***************************************************************************)
Begin(f, st) ==
    /\ run < MaxRuns
    /\ pc \in Stopped
    /\ run' = run + 1
    /\ feed' = f /\ i' = 1 /\ urls' = <<>> /\ j' = 1
    /\ state' = st
    /\ seen_post_ids' = ToSet(st.seen_post_ids)
    /\ seen_hashes' = ToSet(st.seen_hashes)
    /\ found_any_for_post' = FALSE
    /\ downloaded' = 0 /\ skipped_posts' = 0 /\ skipped_hashes' = 0
    /\ attempts' = 0 /\ failed' = FALSE
    /\ killedAt' = "none"
    /\ saving' = NotSaving
    /\ loadRead' = disk[STATE_PATH]
    /\ repeat' = (pc = "done" /\ f = feed)
    /\ UNCHANGED <<files, resolverVars, labelVars>>

\* load_state, lines 49-53: no file, or a file that parses to a mapping
StartRunLoaded(f) ==
    /\ disk[STATE_PATH].kind \in {"absent", "valid"}
    /\ Begin(f, IF disk[STATE_PATH].kind = "valid" THEN Parse(disk[STATE_PATH]) ELSE EmptyState)
    /\ pc' = "loop"
    /\ crashCause' = "none"
    /\ UNCHANGED <<disk, intact, completed>>

\* load_state, lines 54-60: the file does not parse and os.rename succeeds;
\* os.rename replaces an existing destination
StartRunBackedUp(f) ==
    /\ disk[STATE_PATH].kind \in {"garbage", "partial"}
    /\ Begin(f, EmptyState)
    /\ disk' = [disk EXCEPT ![CorruptPath] = disk[STATE_PATH], ![STATE_PATH] = Absent]
    /\ pc' = "loop"
    /\ crashCause' = "none"
    /\ intact' = FALSE
    /\ UNCHANGED completed

\* load_state, lines 56-60: the file does not parse and os.rename raises,
\* which `except Exception: pass` swallows
StartRunRenameFailed(f) ==
    /\ disk[STATE_PATH].kind \in {"garbage", "partial"}
    /\ Begin(f, EmptyState)
    /\ pc' = "loop"
    /\ crashCause' = "none"
    /\ intact' = FALSE
    /\ UNCHANGED <<disk, completed>>

\* lines 53 and 198: the file parses to a value that is no mapping (a list,
\* a number); json.load returns it and state.get raises AttributeError
StartRunNotMapping(f) ==
    /\ disk[STATE_PATH].kind = "nonmap"
    /\ Begin(f, EmptyState)
    /\ pc' = "crashed"
    /\ crashCause' = "load"
    /\ intact' = FALSE
    /\ completed' = FALSE
    /\ UNCHANGED disk

(***************************************************************************)
(* The loop of lines 215-249.                                              *)
(***************************************************************************)
\* the listing raises while it is iterated (the request to the feed fails)
FeedError ==
    /\ pc = "loop" /\ i <= Len(feed)
    /\ pc' = "crashed"
    /\ crashCause' = "feed"
    /\ intact' = FALSE
    /\ completed' = FALSE
    /\ UNCHANGED <<disk, files, mem, run, repeat, killedAt, saving, loadRead, resolverVars, labelVars>>

\* lines 219-221
SkipPost ==
    /\ pc = "loop" /\ i <= Len(feed)
    /\ AlreadyProcessed(feed[i], seen_post_ids)
    /\ skipped_posts' = skipped_posts + 1
    /\ i' = i + 1
    /\ UNCHANGED <<disk, files, pc, feed, urls, j, state, seen_post_ids, seen_hashes,
                   found_any_for_post, downloaded, skipped_hashes, attempts, failed,
                   hist, resolverVars, labelVars>>

\* line 223, the resolver returns
Resolve ==
    /\ pc = "loop" /\ i <= Len(feed)
    /\ ~AlreadyProcessed(feed[i], seen_post_ids)
    /\ ~get_image_urls_from_submission(Catalog(feed[i])).raised
    /\ urls' = get_image_urls_from_submission(Catalog(feed[i])).urls
    /\ attempts' = 0
    /\ pc' = "resolved"
    /\ UNCHANGED <<disk, files, feed, i, j, state, seen_post_ids, seen_hashes,
                   found_any_for_post, downloaded, skipped_posts, skipped_hashes, failed,
                   hist, resolverVars, labelVars>>

\* line 223, the resolver raises: nothing in main catches it
ResolveRaises ==
    /\ pc = "loop" /\ i <= Len(feed)
    /\ ~AlreadyProcessed(feed[i], seen_post_ids)
    /\ get_image_urls_from_submission(Catalog(feed[i])).raised
    /\ pc' = "crashed"
    /\ crashCause' = "resolve"
    /\ intact' = FALSE
    /\ completed' = FALSE
    /\ UNCHANGED <<disk, files, mem, run, repeat, killedAt, saving, loadRead, resolverVars, labelVars>>

\* lines 224-227
MarkNoCandidates ==
    /\ pc = "resolved" /\ urls = <<>>
    /\ seen_post_ids' = MarkSeen(seen_post_ids, feed[i], TRUE)
    /\ i' = i + 1
    /\ pc' = "loop"
    /\ UNCHANGED <<disk, files, feed, urls, j, state, seen_hashes, found_any_for_post,
                   downloaded, skipped_posts, skipped_hashes, attempts, failed,
                   hist, resolverVars, labelVars>>

\* lines 229-230
BeginDownloads ==
    /\ pc = "resolved" /\ urls # <<>>
    /\ found_any_for_post' = FALSE
    /\ j' = 1
    /\ pc' = "download"
    /\ UNCHANGED <<disk, files, feed, i, urls, state, seen_post_ids, seen_hashes,
                   downloaded, skipped_posts, skipped_hashes, attempts, failed,
                   hist, resolverVars, labelVars>>

\* what every outcome of one candidate shares: the loop goes to the next one
Attempt ==
    /\ pc = "download" /\ j <= Len(urls)
    /\ j' = NextCandidate(j, Len(urls))
    /\ attempts' = attempts + 1
    /\ UNCHANGED <<disk, pc, feed, i, urls, state, seen_post_ids, skipped_posts,
                   hist, resolverVars, labelVars>>

\* lines 173-174 and 243-244: raise_for_status raises HTTPError
DownloadHttpError ==
    /\ Attempt
    /\ ~urls[j].bad
    /\ failed' = TRUE
    /\ UNCHANGED <<files, seen_hashes, found_any_for_post, downloaded, skipped_hashes>>

\* lines 173 and 245-246: requests.get raises (network error, invalid URL)
DownloadNetworkError ==
    /\ Attempt
    /\ failed' = TRUE
    /\ UNCHANGED <<files, seen_hashes, found_any_for_post, downloaded, skipped_hashes>>

\* lines 177-180 and 233-235
DownloadDuplicate(body) ==
    /\ Attempt
    /\ ~urls[j].bad
    /\ IsDuplicate(sha256_bytes(body), seen_hashes)
    /\ skipped_hashes' = skipped_hashes + 1
    /\ UNCHANGED <<files, seen_hashes, found_any_for_post, downloaded, failed>>

\* lines 182-192 and 236-242
DownloadSave(body, ctype) ==
    /\ Attempt
    /\ ~urls[j].bad
    /\ ~IsDuplicate(sha256_bytes(body), seen_hashes)
    /\ LET fname == FileName(urls[j], feed[i], j, ctype)
       IN  files' = [n \in DOMAIN files \cup {fname} |-> IF n = fname THEN body ELSE files[n]]
    /\ seen_hashes' = seen_hashes \cup {sha256_bytes(body)}
    /\ downloaded' = downloaded + 1
    /\ found_any_for_post' = TRUE
    /\ UNCHANGED <<skipped_hashes, failed>>

\* lines 190 and 245-246: open(fpath, "wb") raises, nothing is written
DownloadWriteError(body) ==
    /\ Attempt
    /\ ~urls[j].bad
    /\ ~IsDuplicate(sha256_bytes(body), seen_hashes)
    /\ UNCHANGED <<files, seen_hashes, found_any_for_post, downloaded, skipped_hashes, failed>>

\* lines 249-250: the loop goes to the next post and writes nothing to disk;
\* the state is persisted by line 254 alone
SavedAfterEachPost(d, posts, hashes) ==
    [d EXCEPT ![STATE_PATH] = File("valid", 0, Sorted(posts), Sorted(hashes))]
DiskAfterPost(d, posts, hashes) == d

\* line 249
MarkProcessed ==
    /\ pc = "download" /\ j > Len(urls)
    /\ seen_post_ids' = MarkSeen(seen_post_ids, feed[i], found_any_for_post)
    /\ disk' = DiskAfterPost(disk, seen_post_ids', seen_hashes)
    /\ i' = i + 1
    /\ pc' = "loop"
    /\ UNCHANGED <<files, feed, urls, j, state, seen_hashes, found_any_for_post,
                   downloaded, skipped_posts, skipped_hashes, attempts, failed,
                   hist, resolverVars, labelVars>>

\* lines 252-253, and save_state is entered
FinishLoop ==
    /\ pc = "loop" /\ i > Len(feed)
    /\ state' = [seen_post_ids |-> Sorted(seen_post_ids), seen_hashes |-> Sorted(seen_hashes)]
    /\ saving' = [on |-> TRUE, old |-> disk[STATE_PATH], new |-> Serialize(state')]
    /\ pc' = "save_open"
    /\ UNCHANGED <<disk, files, feed, i, urls, j, seen_post_ids, seen_hashes,
                   found_any_for_post, downloaded, skipped_posts, skipped_hashes, attempts,
                   failed, crashCause, run, intact, completed, repeat, killedAt, loadRead,
                   resolverVars, labelVars>>

(***************************************************************************)
(* save_state, lines 62-66.                                                *)
(***************************************************************************)
\* line 64: open(tmp, "w") creates or truncates the temporary file
SaveOpen ==
    /\ pc = "save_open"
    /\ disk' = [disk EXCEPT ![TmpPath] = Partial]
    /\ pc' = "save_dump"
    /\ UNCHANGED <<files, mem, hist, resolverVars, labelVars>>

\* line 65: json.dump and the close of the file
SaveDump ==
    /\ pc = "save_dump"
    /\ disk' = [disk EXCEPT ![TmpPath] = Serialize(state)]
    /\ pc' = "save_replace"
    /\ UNCHANGED <<files, mem, hist, resolverVars, labelVars>>

\* line 66: os.replace(tmp, STATE_PATH)
SaveReplace ==
    /\ pc = "save_replace"
    /\ disk' = IF TmpPath = STATE_PATH
               THEN disk
               ELSE [disk EXCEPT ![STATE_PATH] = disk[TmpPath], ![TmpPath] = Absent]
    /\ pc' = "done"
    /\ UNCHANGED <<files, mem, hist, resolverVars, labelVars>>

(***************************************************************************)
(* The environment.                                                        *)
(***************************************************************************)
\* the process is terminated from outside, at any point of the run; what it
\* held in memory is gone
Kill ==
    /\ pc \in Running
    /\ killedAt' = pc
    /\ pc' = "killed"
    /\ intact' = FALSE
    /\ completed' = FALSE
    /\ NoMemory
    /\ UNCHANGED <<disk, files, crashCause, run, repeat, saving, loadRead, resolverVars, labelVars>>

\* between two runs the state file is damaged or replaced by something else
CorruptStateFile(c) ==
    /\ pc \in Stopped
    /\ run < MaxRuns
    /\ disk[STATE_PATH] # c
    /\ disk' = [disk EXCEPT ![STATE_PATH] = c]
    /\ pc' = "idle"
    /\ intact' = FALSE
    /\ NoMemory
    /\ crashCause' = "none"
    /\ killedAt' = "none"
    /\ saving' = NotSaving
    /\ loadRead' = Absent
    /\ UNCHANGED <<files, run, completed, repeat, resolverVars, labelVars>>

Next ==
    \/ \E f \in Feeds : StartRunLoaded(f)
    \/ FeedError
    \/ SkipPost
    \/ Resolve
    \/ ResolveRaises
    \/ MarkNoCandidates
    \/ BeginDownloads
    \/ DownloadHttpError
    \/ DownloadNetworkError
    \/ \E b \in Bodies : DownloadDuplicate(b)
    \/ \E b \in Bodies, c \in ContentTypes : DownloadSave(b, c)
    \/ \E b \in Bodies : DownloadWriteError(b)
    \/ MarkProcessed
    \/ FinishLoop
    \/ SaveOpen
    \/ SaveDump
    \/ SaveReplace

\* the runs of the program, none of them interrupted, the state file left alone
Spec == Init /\ [][Next]_vars

\* the same with external termination
NextKill == Next \/ Kill

SpecKill == Init /\ [][NextKill]_vars

\* the same with a state file damaged between runs
NextCorrupt ==
    \/ Next
    \/ \E f \in Feeds : StartRunBackedUp(f)
    \/ \E f \in Feeds : StartRunRenameFailed(f)
    \/ \E f \in Feeds : StartRunNotMapping(f)
    \/ \E c \in CorruptContents : CorruptStateFile(c)

SpecCorrupt == Init /\ [][NextCorrupt]_vars

(***************************************************************************)
(* The resolver alone, on every submission of a bounded universe.          *)
(***************************************************************************)
MaxItems == 2

SrcA2 == Url("http", "preview.redd.it", 1, ".jpg", "a&amp;b", FALSE)
SrcOther == Url("other", "preview.redd.it", 2, ".jpg", "", FALSE)
PreviewSrc2 == Url("http", "preview.redd.it", 1, ".jpg", "", FALSE)

SubmittedUrls ==
    { NoUrl, External, Malformed,
      Url("http", "ex.com", 1, ".png", "", FALSE),
      Url("http", "ex.com", 1, ".PNG", "", FALSE),
      Url("http", "ex.com", 1, ".png", "w=1", FALSE),
      Url("http", "ex.com", 1, "", "f=.png", FALSE),
      Url("http", "ex.com", 1, ".png", "a&amp;b", FALSE),
      Url("http", "i.redd.it", 1, ".png", "", FALSE),
      Url("http", "i.redd.it", 1, "", "a&amp;b", FALSE),
      Url("HTTP", "i.redd.it", 1, ".png", "", FALSE),
      Url("HTTP", "", 0, ".png", "", TRUE),
      Url("other", "i.redd.it", 1, ".png", "", FALSE) }

MetaChoices ==
    { Meta(SrcA, PreviewSrc), Meta(SrcA2, PreviewSrc), Meta(SrcB, PreviewSrc),
      Meta(NoUrl, PreviewSrc), Meta(SrcOther, PreviewSrc), NoneMeta }

MediaIds == {1, 2}

\* media_metadata: None or empty, or a dict over the media ids
MetadataChoices == {<<>>} \cup [MediaIds -> MetaChoices]

\* gallery_data: None, or items naming media ids, 3 being an id without metadata
GalleryChoices ==
    {NoGalleryData} \cup
    {GalleryData(items) : items \in UNION {[1..n -> MediaIds \cup {3}] : n \in 0..MaxItems}}

PreviewChoices ==
    { NoPreview, PreviewWithoutImages, Preview(<<>>),
      Preview(<<[source |-> PreviewSrc]>>),
      Preview(<<[source |-> NoUrl], [source |-> PreviewSrc2]>>),
      Preview(<<[source |-> SrcOther], [source |-> PreviewSrc]>>),
      Preview(<<[source |-> PreviewSrc2], [source |-> PreviewSrc]>>) }

\* a post that is no gallery has no gallery fields, or fields left over
Submissions ==
    { Submission(TRUE, md, gd, u, p) :
        md \in MetadataChoices, gd \in GalleryChoices,
        u \in SubmittedUrls, p \in PreviewChoices }
    \cup
    { Submission(FALSE, md, gd, u, p) :
        md \in {<<>>, [m \in MediaIds |-> Meta(SrcA, PreviewSrc)]},
        gd \in {NoGalleryData, GalleryData(<<1>>)},
        u \in SubmittedUrls, p \in PreviewChoices }

ResolverInit ==
    /\ disk = [p \in Paths |-> Absent]
    /\ files = <<>>
    /\ pc = "idle"
    /\ feed = <<>> /\ i = 1 /\ urls = <<>> /\ j = 1
    /\ state = EmptyState
    /\ seen_post_ids = {} /\ seen_hashes = {}
    /\ found_any_for_post = FALSE
    /\ downloaded = 0 /\ skipped_posts = 0 /\ skipped_hashes = 0
    /\ crashCause = "none"
    /\ run = 0
    /\ intact = TRUE
    /\ completed = TRUE
    /\ repeat = FALSE
    /\ attempts = 0 /\ failed = FALSE
    /\ killedAt = "none"
    /\ saving = NotSaving
    /\ loadRead = Absent
    /\ sub \in Submissions /\ result = NoResult /\ rpc = "call"
    /\ messages = <<>> /\ mi = 1 /\ simplified_data = <<>>

\* get_image_urls_from_submission returns its list
ResolverReturns ==
    /\ rpc = "call"
    /\ ~get_image_urls_from_submission(sub).raised
    /\ result' = get_image_urls_from_submission(sub)
    /\ rpc' = "returned"
    /\ UNCHANGED <<sub, pipelineVars, labelVars>>

\* get_image_urls_from_submission ends with an exception
ResolverRaises ==
    /\ rpc = "call"
    /\ get_image_urls_from_submission(sub).raised
    /\ result' = get_image_urls_from_submission(sub)
    /\ rpc' = "raised"
    /\ UNCHANGED <<sub, pipelineVars, labelVars>>

ResolverNext == ResolverReturns \/ ResolverRaises

SpecResolver == ResolverInit /\ [][ResolverNext]_vars

(***************************************************************************)
(* Properties of the pipeline.                                             *)
(***************************************************************************)
\* the post identifiers the state file holds
PersistedPosts ==
    IF disk[STATE_PATH].kind = "valid" THEN ToSet(disk[STATE_PATH].seen_post_ids) ELSE {}

\* the run has ended by itself: it returned or an exception ended it
Ended == pc \in {"done", "crashed"}

\* C1: a run that completes right after a completed run on the same feed,
\* the state file left as that run wrote it, saves no image file and writes
\* a state file equal to the one it loaded.
RerunIsIdempotent ==
    (pc = "done" /\ repeat) => (downloaded = 0 /\ disk[STATE_PATH] = loadRead)

\* a second run on the feed of the first, which had saved images of two posts
RerunWitness ==
    /\ pc = "done" /\ repeat
    /\ Len(feed) = 2
    /\ skipped_posts = 2
    /\ Cardinality(DOMAIN files) >= 2

\* C2: as long as every run completed and loaded its state file, no two saved
\* files hold the same bytes: a body whose digest is in seen_hashes is not
\* written again, under whatever URL or post it is fetched.
NoBodySavedTwice ==
    intact => \A n1, n2 \in DOMAIN files : n1 # n2 => files[n1] # files[n2]

\* the second run fetched, for another post, bytes the first run had saved
DuplicateWitness ==
    /\ intact /\ run = 2 /\ pc = "done"
    /\ skipped_hashes > 0 /\ downloaded = 0 /\ skipped_posts = 0
    /\ Cardinality(DOMAIN files) = 1

\* C3: a post identifier the state file holds is never resolved, and none of
\* its candidates fetched, in a run that loaded that file.
NeverReResolved ==
    pc \in {"resolved", "download"} => feed[i] \notin PersistedPosts

\* a later run skips a persisted post and resolves the next one of the feed
SkipThenResolveWitness ==
    /\ run = 2 /\ pc = "resolved"
    /\ i = 2 /\ feed[1] \in PersistedPosts

\* C4: from the start of save_state on, killed or not, the state file is the
\* complete file of before or the complete new one, never a partly written
\* one, and load_state never reads a partly written file.
StateFileAtomic ==
    /\ disk[STATE_PATH].kind # "partial"
    /\ loadRead.kind # "partial"
    /\ saving.on => disk[STATE_PATH] \in {saving.old, saving.new}
    /\ (saving.on /\ pc # "done") => disk[STATE_PATH] = saving.old

\* killed after the temporary file was written in full and before os.replace
KilledBeforeReplaceWitness ==
    /\ pc = "killed" /\ killedAt = "save_replace"
    /\ disk[TmpPath] = saving.new
    /\ saving.old.kind = "valid"
    /\ saving.new # saving.old
    /\ disk[STATE_PATH] = saving.old

\* C5: a run that found a state file it could not use (one that does not
\* parse, or parses to something else than a mapping) is not ended by that,
\* and when the run has ended the file's content is under the backup path.
CorruptStatePreserved ==
    (Ended /\ loadRead.kind \in {"garbage", "nonmap"}) =>
        /\ ~(pc = "crashed" /\ crashCause = "load")
        /\ disk[CorruptPath] = loadRead

\* C6: when the run has gone through its feed, or has ended on the resolution
\* of a post, every post of the feed is in seen_post_ids.
EveryPostMarked ==
    (pc = "done" \/ (pc = "crashed" /\ crashCause = "resolve")) =>
        \A k \in 1..Len(feed) : feed[k] \in seen_post_ids

NoPostEndsTheRun ==
    pc = "crashed" => crashCause \notin {"resolve", "download"}

(***************************************************************************)
(* Properties of the resolver.                                             *)
(***************************************************************************)
\* the source URLs of the gallery items, in gallery_data order, decoded
GallerySources(sb) ==
    [k \in 1..Len(sb.gallery_data.items) |->
        DecodeAmp(sb.media_metadata[sb.gallery_data.items[k]].s)]

\* the members of a list whose canonical form no earlier member has, in order
FirstOccurrences(l) ==
    LET keep == {k \in 1..Len(l) :
                    \A m \in 1..(k - 1) :
                        normalize_reddit_image_url(l[m]) # normalize_reddit_image_url(l[k])}
        rank(k) == Cardinality({m \in keep : m <= k})
    IN  [n \in 1..Cardinality(keep) |-> l[CHOOSE k \in keep : rank(k) = n]]

\* a gallery with metadata in which every item has a source URL
GalleryWithSources(sb) ==
    /\ sb.is_gallery
    /\ DOMAIN sb.media_metadata # {}
    /\ sb.gallery_data.kind = "items"
    /\ \A k \in 1..Len(sb.gallery_data.items) :
          /\ sb.gallery_data.items[k] \in DOMAIN sb.media_metadata
          /\ sb.media_metadata[sb.gallery_data.items[k]].kind = "dict"
          /\ Truthy(sb.media_metadata[sb.gallery_data.items[k]].s)

HasPreviewSource(sb) ==
    /\ sb.preview.kind = "images"
    /\ \E k \in 1..Len(sb.preview.images) :
          Truthy(sb.preview.images[k].source) /\ StartsWithHttp(sb.preview.images[k].source)

FirstPreviewSource(sb) ==
    LET k == CHOOSE n \in 1..Len(sb.preview.images) :
                 /\ Truthy(sb.preview.images[n].source)
                 /\ StartsWithHttp(sb.preview.images[n].source)
                 /\ \A m \in 1..(n - 1) :
                       ~(Truthy(sb.preview.images[m].source)
                         /\ StartsWithHttp(sb.preview.images[m].source))
    IN  DecodeAmp(sb.preview.images[k].source)

\* C10: for a post that is no gallery, whose submitted URL is not on a native
\* image host and does not end in an image extension, the resolver returns
\* the source of the first preview image that has one, and that alone; with
\* no preview it returns the empty list.
PreviewIsTheLastResort ==
    ( /\ rpc # "call"
      /\ ~sub.is_gallery
      /\ sub.url.host \notin REDDIT_IMAGE_HOSTS
      /\ ~EndsWithImageExt(sub.url) ) =>
        /\ rpc = "returned"
        /\ HasPreviewSource(sub) => result.urls = <<FirstPreviewSource(sub)>>
        /\ sub.preview.kind = "none" => result.urls = <<>>

\* lines 114-155: the list the four rules leave in urls before the
\* de-duplication of lines 157-164 (when no rule raises)
Emitted(sb) ==
    LET r1 == GalleryRule(sb)
        r2 == IF r1 # <<>> THEN r1 ELSE NativeRule(sb)
        r3 == IF r2 # <<>> THEN r2 ELSE ExtensionRule(sb)
    IN  IF r3 # <<>> THEN r3 ELSE PreviewRule(sb)

\* the canonical form of a URL: scheme, host and path on a native image
\* host, the URL itself elsewhere
CanonicalForm(u) ==
    IF ~u.bad /\ u.host \in REDDIT_IMAGE_HOSTS
    THEN Url(LowerPre(u.pre), u.host, u.path, u.ext, "", FALSE)
    ELSE u

\* the members of a list that no earlier member shares its canonical form
\* with, in the order of the list
FirstByCanonicalForm(l) ==
    LET keep == {k \in 1..Len(l) :
                    \A m \in 1..(k - 1) : CanonicalForm(l[m]) # CanonicalForm(l[k])}
        rank(k) == Cardinality({m \in keep : m <= k})
    IN  [n \in 1..Cardinality(keep) |-> l[CHOOSE k \in keep : rank(k) = n]]

\* C11: no two URLs of the returned list have one canonical form; the list
\* is the emitted one with, of the URLs of one canonical form, the first
\* occurrence alone, in emission order.
CanonicalDedupe ==
    rpc = "returned" =>
        /\ \A a, b \in 1..Len(result.urls) :
              a # b => CanonicalForm(result.urls[a]) # CanonicalForm(result.urls[b])
        /\ result.urls = FirstByCanonicalForm(Emitted(sub))

\* a gallery whose two sources differ by the query string only, on a native
\* image host: the first is returned alone
SizeVariantsWitness ==
    /\ rpc = "returned"
    /\ Emitted(sub) = <<SrcA, DecodeAmp(SrcA2)>>
    /\ result.urls = <<SrcA>>

\* the gallery rule meets a missing field: gallery_data is None, or the
\* metadata of an item is None
GalleryMeetsMissingField(sb) ==
    /\ sb.is_gallery
    /\ DOMAIN sb.media_metadata # {}
    /\ \/ sb.gallery_data.kind = "none"
       \/ \E k \in 1..Len(sb.gallery_data.items) :
             /\ sb.gallery_data.items[k] \in DOMAIN sb.media_metadata
             /\ sb.media_metadata[sb.gallery_data.items[k]].kind = "none"

\* C12: the resolver returns a list for every post and never ends with an
\* exception; a gallery rule that met a missing field contributes no
\* candidate, so no gallery source is in the list returned.
ResolverNeverFails ==
    /\ rpc # "raised"
    /\ (rpc = "returned" /\ GalleryMeetsMissingField(sub)) =>
          \A k \in 1..Len(result.urls) : \A m \in DOMAIN sub.media_metadata :
              result.urls[k] # DecodeAmp(sub.media_metadata[m].s)

(***************************************************************************)
(* Properties of the pipeline with a damaged state file or a termination.  *)
(***************************************************************************)
\* the digests the state file holds
PersistedHashes ==
    IF disk[STATE_PATH].kind = "valid" THEN ToSet(disk[STATE_PATH].seen_hashes) ELSE {}

\* C13: every run so far ran to its end, the state file may have been
\* damaged between two of them: still no two saved files hold the same
\* bytes, a body an earlier run saved is not saved again under a new name.
DedupeSurvivesCorruption ==
    completed => \A n1, n2 \in DOMAIN files : n1 # n2 => files[n1] # files[n2]

\* C14: when the run is terminated from outside, every post identifier it
\* had marked and every digest it had recorded is in the state file, which
\* is what the next run loads.
TerminationLosesNothing ==
    [][Kill => /\ seen_post_ids \subseteq PersistedPosts
               /\ seen_hashes \subseteq PersistedHashes]_vars

\* the part of a run between load_state and save_state
Traversal == {"loop", "resolved", "download"}

\* C15: the state file changes by the os.replace of save_state alone; while
\* the feed is traversed, and until that replace, it is the file load_state
\* found, and once the run is done it is the one file save_state wrote.
StateWrittenOnceAtEnd ==
    /\ [][disk'[STATE_PATH] # disk[STATE_PATH] => (pc = "save_replace" /\ pc' = "done")]_vars
    /\ [](pc \in Traversal \cup SavePcs => disk[STATE_PATH] = loadRead)
    /\ [](pc = "done" => disk[STATE_PATH] = saving.new)

\* a second run has gone through its feed and marked a post the state file
\* does not hold yet
TraversedNotYetSavedWitness ==
    /\ run = 2 /\ pc = "loop" /\ i > Len(feed)
    /\ disk[STATE_PATH].kind = "valid"
    /\ disk[STATE_PATH] = loadRead
    /\ seen_post_ids # PersistedPosts
    /\ seen_hashes # PersistedHashes

\* where a returned URL can come from
IsGallerySource(sb, u) ==
    \E m \in DOMAIN sb.media_metadata :
        sb.media_metadata[m].kind = "dict" /\ u = DecodeAmp(sb.media_metadata[m].s)

IsSubmittedUrl(sb, u) == u = sb.url

IsPreviewSource(sb, u) ==
    \E k \in 1..Len(sb.preview.images) : u = DecodeAmp(sb.preview.images[k].source)

\* C16: the URLs returned for one post all come from one rule, the first
\* of the chain that produced a candidate: gallery sources are never mixed
\* with the submitted URL or a preview source, nor the submitted URL with
\* a preview source.
RuleExclusivity ==
    rpc = "returned" =>
        LET all(P(_, _)) == \A k \in 1..Len(result.urls) : P(sub, result.urls[k])
        IN  /\ all(IsGallerySource) \/ all(IsSubmittedUrl) \/ all(IsPreviewSource)
            /\ GalleryRule(sub) # <<>> => all(IsGallerySource)
            /\ (GalleryRule(sub) = <<>> /\ NativeRule(sub) \o ExtensionRule(sub) # <<>>) =>
                   all(IsSubmittedUrl)
            /\ Len(result.urls) > 0 =>
                   LET o == { n \in 1..4 : CASE n = 1 -> GalleryRule(sub) # <<>>
                                               [] n = 2 -> NativeRule(sub) # <<>>
                                               [] n = 3 -> ExtensionRule(sub) # <<>>
                                               [] n = 4 -> PreviewRule(sub) # <<>> }
                       first == CHOOSE n \in o : \A m \in o : n <= m
                   IN  ToSet(result.urls) \subseteq
                           ToSet(CASE first = 1 -> GalleryRule(sub)
                                   [] first = 2 -> NativeRule(sub)
                                   [] first = 3 -> ExtensionRule(sub)
                                   [] first = 4 -> PreviewRule(sub))

\* a gallery of one item whose submitted URL is an image on a native host
\* and which has a preview: every rule has a candidate, the source alone is
\* returned
EveryRuleMatchesWitness ==
    /\ rpc = "returned"
    /\ sub.is_gallery /\ sub.gallery_data.items = <<1>>
    /\ NativeRule(sub) # <<>> /\ ExtensionRule(sub) # <<>> /\ PreviewRule(sub) # <<>>
    /\ result.urls = <<SrcA>>

\* the path component of the URL ends in an image extension, whatever case
PathEndsWithImageExt(u) == LowerExt(u.ext) \in IMAGE_EXTS

\* C17: for a post that is no gallery, with a submitted http(s) URL that is
\* not on a native image host, the resolver returns exactly that URL if and
\* only if the path of the URL ends in an image extension, whatever query
\* string follows the path.
ExtensionMatchesOnPath ==
    ( /\ rpc # "call"
      /\ ~sub.is_gallery
      /\ StartsWithHttp(sub.url)
      /\ sub.url.host \notin REDDIT_IMAGE_HOSTS ) =>
        (PathEndsWithImageExt(sub.url) <=> result.urls = <<sub.url>>)

\* C18: no URL the resolver returns holds the escaped ampersand "&amp;",
\* whichever rule emitted it.
NoEscapedAmpersand ==
    rpc = "returned" => \A k \in 1..Len(result.urls) : ~HasEscapedAmp(result.urls[k])

\* C19: as long as every run completed and loaded its state file, a save
\* creates a file under a name no file has yet, the name made of the post
\* identifier and of the position of the URL among the candidates of the
\* post, and leaves every file saved before as it is.
NoOverwrite ==
    [][(intact /\ downloaded' = downloaded + 1) =>
          \E n \in DOMAIN files' \ DOMAIN files :
              /\ n[1] = feed[i] /\ n[2] = j
              /\ DOMAIN files' = DOMAIN files \cup {n}
              /\ \A m \in DOMAIN files : files'[m] = files[m]]_vars

\* the second run met a duplicate at the first position of a gallery and
\* saved the second candidate under position 2, next to the file of the
\* first run
SecondPositionWitness ==
    /\ intact /\ run = 2 /\ pc = "done"
    /\ skipped_hashes = 1 /\ downloaded = 1
    /\ DOMAIN files = {<<4, 1, ".jpg">>, <<2, 2, ".jpg">>}

(***************************************************************************)
(* scripts/label_messages.py: the labels of the messages of a              *)
(* conversation.  A rubric maps each category to a score, or to Missing    *)
(* when the rubric lacks the category.  An average is kept as the fraction *)
(* num/den of the sum of the scores and their number.                      *)
(***************************************************************************)
Categories ==
    <<"understandability", "interestingness", "contextuality",
      "naturalness", "timeliness", "repetitiveness", "appropriateness">>

\* rubric.get(cat, None) of a category the rubric lacks
Missing == 0

Average(num, den) == [num |-> num, den |-> den]

\* avg >= n/10
AtLeast(avg, tenths) == 10 * avg.num >= tenths * avg.den

RECURSIVE SumScores(_, _)
SumScores(rubric, k) ==
    IF k > Len(Categories)
    THEN 0
    ELSE (IF rubric[Categories[k]] # Missing THEN rubric[Categories[k]] ELSE 0)
         + SumScores(rubric, k + 1)

\* len(scores)
CountScores(rubric) == Cardinality({k \in 1..Len(Categories) : rubric[Categories[k]] # Missing})

\* lines 9-21 alone: the average of the scores present, 0 when there is none
AverageOfScores(rubric, sacrifice) ==
    IF CountScores(rubric) = 0
    THEN Average(0, 1)
    ELSE Average(SumScores(rubric, 1), CountScores(rubric))

\* lines 5-21: the average the caller uses; the label returned with it is
\* not used by process_conversations
label_message(rubric, sacrifice) ==
    IF rubric["appropriateness"] = 1
    THEN Average(0, 1)
    ELSE AverageOfScores(rubric, sacrifice)

\* lines 23-35
assign_label_from_score(avg) ==
    IF AtLeast(avg, 45) THEN "best"
    ELSE IF AtLeast(avg, 43) THEN "excellent"
    ELSE IF AtLeast(avg, 40) THEN "good"
    ELSE IF AtLeast(avg, 35) THEN "inaccuracy"
    ELSE IF AtLeast(avg, 30) THEN "mistake"
    ELSE "blunder"

\* round(avg_score, 2), in hundredths; an average of at most seven integer
\* scores is never halfway between two hundredths
Round2(avg) == (200 * avg.num + avg.den) \div (2 * avg.den)

\* msg.get("average_score", 5) of a message that has no such key
NoAverageScore == 500

\* lines 50-64
LabelOf(avg_score, sacrifice, k, msgs) ==
    IF AtLeast(avg_score, 45) /\ sacrifice
    THEN "brilliant"
    ELSE IF k > 1
         THEN LET prev_avg == msgs[k - 1].average_score
              IN  IF prev_avg < 300
                  THEN IF AtLeast(avg_score, 40) THEN "great"
                       ELSE IF AtLeast(avg_score, 30) THEN "miss"
                       ELSE "blunder"
                  ELSE assign_label_from_score(avg_score)
         ELSE assign_label_from_score(avg_score)

\* the conversations hold at most MaxMessages messages
MaxMessages == 2

\* a rubric whose appropriateness is ap, whose first k other categories
\* score a and whose remaining ones score b
MakeRubric(ap, k, a, b) ==
    [c \in {Categories[n] : n \in 1..Len(Categories)} |->
        IF c = "appropriateness" THEN ap
        ELSE LET n == CHOOSE m \in 1..Len(Categories) : Categories[m] = c
             IN  IF n <= k THEN a ELSE b]

Rubrics ==
    { MakeRubric(ap, p[1], p[2], p[3]) :
        ap \in {Missing, 1, 3, 5},
        p \in { <<6, 5, 5>>, <<4, 5, 4>>, <<6, 4, 4>>, <<3, 4, 3>>,
                <<6, 3, 3>>, <<6, 1, 1>>, <<6, Missing, Missing>>, <<3, 5, Missing>> } }

Messages ==
    { [rubric |-> r, sacrifice |-> sc, average_score |-> NoAverageScore] :
        r \in Rubrics, sc \in BOOLEAN }

Conversations == UNION {[1..n -> Messages] : n \in 1..MaxMessages}

LabelInit ==
    /\ disk = [p \in Paths |-> Absent]
    /\ files = <<>>
    /\ pc = "idle"
    /\ feed = <<>> /\ i = 1 /\ urls = <<>> /\ j = 1
    /\ state = EmptyState
    /\ seen_post_ids = {} /\ seen_hashes = {}
    /\ found_any_for_post = FALSE
    /\ downloaded = 0 /\ skipped_posts = 0 /\ skipped_hashes = 0
    /\ crashCause = "none"
    /\ run = 0
    /\ intact = TRUE
    /\ completed = TRUE
    /\ repeat = FALSE
    /\ attempts = 0 /\ failed = FALSE
    /\ killedAt = "none"
    /\ saving = NotSaving
    /\ loadRead = Absent
    /\ sub = NoSub /\ result = NoResult /\ rpc = "unused"
    /\ messages \in Conversations /\ mi = 1 /\ simplified_data = <<>>

\* lines 42-71: one turn of the loop over the messages of a conversation
LabelMessage ==
    /\ mi <= Len(messages)
    /\ LET msg == messages[mi]
           avg_score == label_message(msg.rubric, msg.sacrifice)
       IN  /\ messages' = [messages EXCEPT ![mi].average_score = Round2(avg_score)]
           /\ simplified_data' =
                  Append(simplified_data, LabelOf(avg_score, msg.sacrifice, mi, messages'))
    /\ mi' = mi + 1
    /\ UNCHANGED <<pipelineVars, resolverVars>>

LabelNext == LabelMessage

SpecLabel == LabelInit /\ [][LabelNext]_vars

(***************************************************************************)
(* Properties of the labels.                                               *)
(***************************************************************************)
\* the average of a message as label_message gives it, below 3
AverageBelow3(msg) ==
    \/ msg.rubric["appropriateness"] = 1
    \/ CountScores(msg.rubric) = 0
    \/ SumScores(msg.rubric, 1) < 3 * CountScores(msg.rubric)

\* C20: a message whose rubric has appropriateness 1 is labelled "blunder",
\* whatever its other scores, its sacrifice flag, its position and the
\* message before it; a message that follows one of average below 3 is
\* labelled "brilliant", "great", "miss" or "blunder".
BlunderAndFollowUpLabels ==
    \A k \in 1..Len(simplified_data) :
        /\ messages[k].rubric["appropriateness"] = 1 => simplified_data[k] = "blunder"
        /\ (k > 1 /\ AverageBelow3(messages[k - 1])) =>
              simplified_data[k] \in {"brilliant", "great", "miss", "blunder"}

\* a message of appropriateness 1, all other scores 5 and the sacrifice flag
\* set, labelled "blunder", and after it a message of average 4 or more
\* without the flag, labelled "great"
BlunderThenGreatWitness ==
    /\ Len(simplified_data) = 2
    /\ messages[1].rubric = MakeRubric(1, 6, 5, 5) /\ messages[1].sacrifice
    /\ messages[2].rubric = MakeRubric(5, 6, 4, 4) /\ ~messages[2].sacrifice
    /\ simplified_data = <<"blunder", "great">>

====
